---- MODULE Spec2Model ----
(***************************************************************************)
(* build_xray_tile (xray/src/bin/build_xray_tile.rs): one invocation of    *)
(* main(), from the command line to the process exit.                      *)
(*                                                                         *)
(* Numbers.  Coordinates are whole metres.  A resolution is the rational   *)
(* num/den (den > 0), so the default "0.05" is 1/20.  An f64 quotient is   *)
(* finite, +inf or NaN; `as u32` is the saturating cast of the language    *)
(* reference (NaN -> 0, negative -> 0, +inf -> u32::MAX).  u32::MAX is     *)
(* beyond TLC's integers, so a pixel count is the record [val, is_max]:    *)
(* is_max = TRUE stands for u32::MAX.  Out-of-range casts arise only for a *)
(* resolution <= 0; no property below depends on their result.             *)
(***************************************************************************)
EXTENDS Integers, Sequences, FiniteSets, TLC

\* ------------------------------------------------------------------ bounds
\* largest plain X (resp. Y) coordinate of a request or of a source box
MaxCoordX == 2
MaxCoordY == 1

\* ------------------------------------------------- command-line tokens
\* a numeric option as typed: absent, not a number ("abc"), or a number
Absent == [st |-> "absent", v |-> 0]
Bad    == [st |-> "bad", v |-> 0]
Num(n) == [st |-> "num", v |-> n]

\* --resolution as typed: the number is the rational num/den
ResAbsent   == [st |-> "absent", num |-> 0, den |-> 1]
ResBad      == [st |-> "bad", num |-> 0, den |-> 1]
Res(n, d)   == [st |-> "num", num |-> n, den |-> d]

\* .default_value("0.05")
DefaultResolution == Res(1, 20)
\* .default_value("xray")
DefaultColoringStrategy == "xray"
\* .default_value("white")
DefaultTileBackgroundColor == "white"

\* ColoringStrategyArgument::variants(), TileBackgroundColorArgument::variants()
ColoringStrategyVariants == {"xray", "colored", "colored_with_intensity", "colored_with_height_stddev"}
TileBackgroundColorVariants == {"white", "transparent"}

\* ------------------------------------------------------------ geometry
Max(a, b) == IF a >= b THEN a ELSE b
Min(a, b) == IF a <= b THEN a ELSE b

Point2(x, y) == [x |-> x, y |-> y]
Point3(x, y, z) == [x |-> x, y |-> y, z |-> z]

\* collision::Aabb2::new orders the two corners per axis
Aabb2New(p1, p2) ==
    [min |-> Point2(Min(p1.x, p2.x), Min(p1.y, p2.y)),
     max |-> Point2(Max(p1.x, p2.x), Max(p1.y, p2.y))]

\* collision::Aabb3::new orders the two corners per axis
Aabb3New(p1, p2) ==
    [min |-> Point3(Min(p1.x, p2.x), Min(p1.y, p2.y), Min(p1.z, p2.z)),
     max |-> Point3(Max(p1.x, p2.x), Max(p1.y, p2.y), Max(p1.z, p2.z))]

\* Aabb::dim(): max - min
Dim(b) == [x |-> b.max.x - b.min.x, y |-> b.max.y - b.min.y]

\* the intersection as run() writes it, handed to Aabb3::new
ResolveBbox3(bbox2, bbox3) ==
    Aabb3New(Point3(Max(bbox2.min.x, bbox3.min.x), Max(bbox2.min.y, bbox3.min.y), bbox3.min.z),
             Point3(Min(bbox2.max.x, bbox3.max.x), Min(bbox2.max.y, bbox3.max.y), bbox3.max.z))

\* ------------------------------------------------------- raster sizing
\* (extent / resolution).ceil() in f64: finite, +inf (x/0, x > 0) or NaN (0/0)
DivCeil(extent, r) ==
    IF r.num = 0
    THEN IF extent = 0 THEN [cls |-> "nan", v |-> 0] ELSE [cls |-> "inf", v |-> 0]
    ELSE IF r.num > 0
         THEN [cls |-> "fin", v |-> (extent * r.den + r.num - 1) \div r.num]
         ELSE [cls |-> "fin", v |-> 0 - ((extent * r.den) \div (0 - r.num))]

\* `as u32`
AsU32(q) ==
    IF q.cls = "nan" THEN [val |-> 0, is_max |-> FALSE]
    ELSE IF q.cls = "inf" THEN [val |-> 0, is_max |-> TRUE]
    ELSE IF q.v < 0 THEN [val |-> 0, is_max |-> FALSE]
    ELSE [val |-> q.v, is_max |-> FALSE]

ImageSize(extent, r) == AsU32(DivCeil(extent, r))

\* ------------------------------------------------------------- the state
VARIABLES
    args,                   \* the command line as typed
    source_bbox,            \* the box the data source reports
    pc,                     \* position of main()/run()
    resolution,             \* main: let resolution
    coloring_strategy_kind, \* main: let coloring_strategy_kind
    tile_background_color,  \* main: let tile_background_color
    bbox2,                  \* main: let bbox2
    client_new_calls,       \* calls of PointCloudClient::new
    client_ok,              \* run: point_cloud_client exists
    bbox_reads,             \* calls of point_cloud_client.bounding_box()
    bbox3,                  \* run: let bbox3 (the second one)
    image_width,            \* run: let image_width
    image_height,           \* run: let image_height
    strategy,               \* the value of coloring_strategy_kind.new_strategy()
    gen_calls,              \* calls of xray_from_points
    gen_args,               \* the arguments of that call
    gen_result,             \* its return value
    output_written,         \* the generation routine wrote the output file
    notice,                 \* "No points in bounding box. No output written." printed
    exit_code,              \* -1 while running
    stages                  \* the stages completed, in order

vars == <<args, source_bbox, pc, resolution, coloring_strategy_kind, tile_background_color,
          bbox2, client_new_calls, client_ok, bbox_reads, bbox3, image_width, image_height,
          strategy, gen_calls, gen_args, gen_result, output_written, notice, exit_code, stages>>

\* placeholders of the locals not yet bound
NoResolution == [num |-> 0, den |-> 1]
NoKind       == [tag |-> "none", a |-> 0, b |-> 0]
NoBbox2      == [min |-> Point2(0, 0), max |-> Point2(0, 0)]
NoBbox3      == [min |-> Point3(0, 0, 0), max |-> Point3(0, 0, 0)]
NoSize       == [val |-> 0, is_max |-> FALSE]
NoGenArgs    == [prior |-> "unset", volume |-> NoBbox3, width |-> NoSize, height |-> NoSize,
                 strategy |-> NoKind, background |-> "none"]

\* ------------------------------------------------------------ the inputs
CoordsX == (0 .. MaxCoordX) \cup {10}
CoordsY == (0 .. MaxCoordY) \cup {10}

\* boxes a data source reports: min <= max per axis
SourceBoxes ==
    { [min |-> Point3(x[1], y[1], z[1]), max |-> Point3(x[2], y[2], z[2])] :
        x \in { p \in (0 .. MaxCoordX) \X (0 .. MaxCoordX) : p[1] <= p[2] },
        y \in { p \in (0 .. MaxCoordY) \X (0 .. MaxCoordY) : p[1] <= p[2] },
        z \in {<<0, 3>>, <<1, 2>>} }

ScenarioBox == [min |-> Point3(5, 5, 0), max |-> Point3(8, 8, 3)]

ArgsOf(res, cs, mi, ma, sd, loc, x1, y1, x2, y2, bg) ==
    [resolution |-> res, coloring_strategy |-> cs, min_intensity |-> mi, max_intensity |-> ma,
     max_stddev |-> sd, octree_locations |-> loc, min_x |-> x1, min_y |-> y1, max_x |-> x2,
     max_y |-> y2, tile_background_color |-> bg]

\* command lines that vary the request and the resolution, the rest left to its defaults
GeometryArgs ==
    { ArgsOf(res, "absent", Absent, Absent, Absent, TRUE, Num(x1), Num(y1), Num(x2), Num(y2), "absent") :
        res \in {ResAbsent, Res(1, 1), Res(2, 1), Res(0, 1), Res(-1, 1)},
        x1 \in CoordsX, x2 \in CoordsX, y1 \in CoordsY, y2 \in CoordsY }

\* the required arguments: all given and numeric, or one of them missing or not a number
RequiredOk == [octree_locations |-> TRUE, min_x |-> Num(0), min_y |-> Num(0),
               max_x |-> Num(10), max_y |-> Num(10)]
RequiredCases ==
    {RequiredOk, [RequiredOk EXCEPT !.octree_locations = FALSE]}
    \cup { [RequiredOk EXCEPT ![f] = t] : f \in {"min_x", "min_y", "max_x", "max_y"}, t \in {Absent, Bad} }

\* command lines that vary the configuration over one request
ConfigurationArgs ==
    { ArgsOf(res, cs, mi, ma, sd, rq.octree_locations, rq.min_x, rq.min_y, rq.max_x, rq.max_y, bg) :
        res \in {ResAbsent, ResBad, Res(0, 1)},
        cs \in {"absent", "bogus"} \cup ColoringStrategyVariants,
        mi \in {Absent, Bad, Num(2)}, ma \in {Absent, Bad, Num(3)}, sd \in {Absent, Bad, Num(4)},
        rq \in RequiredCases,
        bg \in {"absent", "transparent", "bogus"} }

\* --------------------------------------------------------- parse_arguments
\* clap: possible_values, required, required_if (get_matches exits on a violation)
ClapAccepts_NoRequiredIf(a) ==
    /\ a.coloring_strategy \in {"absent"} \cup ColoringStrategyVariants
    /\ a.tile_background_color \in {"absent"} \cup TileBackgroundColorVariants
    /\ a.octree_locations
    /\ \A f \in {"min_x", "min_y", "max_x", "max_y"} : a[f].st # "absent"

ClapAccepts(a) ==
    /\ a.coloring_strategy \in {"absent"} \cup ColoringStrategyVariants
    /\ a.tile_background_color \in {"absent"} \cup TileBackgroundColorVariants
    /\ a.coloring_strategy = "colored_with_intensity" => a.min_intensity.st # "absent"
    /\ a.coloring_strategy = "colored_with_intensity" => a.max_intensity.st # "absent"
    /\ a.coloring_strategy = "colored_with_height_stddev" => a.max_stddev.st # "absent"
    /\ a.octree_locations
    /\ \A f \in {"min_x", "min_y", "max_x", "max_y"} : a[f].st # "absent"

\* the matches: an option left out takes its default_value
MatchResolution(a) == IF a.resolution.st = "absent" THEN DefaultResolution ELSE a.resolution
MatchColoringStrategy(a) ==
    IF a.coloring_strategy = "absent" THEN DefaultColoringStrategy ELSE a.coloring_strategy
MatchTileBackgroundColor(a) ==
    IF a.tile_background_color = "absent" THEN DefaultTileBackgroundColor ELSE a.tile_background_color

\* value_t!(matches, name, f32).unwrap_or(1.)
ValueOr1(tok) == IF tok.st = "num" THEN tok.v ELSE 1

\* main: the match on the coloring_strategy argument
KindOf(a) ==
    LET arg == MatchColoringStrategy(a) IN
    IF arg = "xray" THEN [tag |-> "XRay", a |-> 0, b |-> 0]
    ELSE IF arg = "colored" THEN [tag |-> "Colored", a |-> 0, b |-> 0]
    ELSE IF arg = "colored_with_intensity"
         THEN [tag |-> "ColoredWithIntensity", a |-> ValueOr1(a.min_intensity), b |-> ValueOr1(a.max_intensity)]
    ELSE [tag |-> "ColoredWithHeightStddev", a |-> ValueOr1(a.max_stddev), b |-> 0]

\* main: the match on the tile_background_color argument
BackgroundOf(a) ==
    IF MatchTileBackgroundColor(a) = "white" THEN "WHITE" ELSE "TRANSPARENT"

\* ------------------------------------------------------------------ Init
Init ==
    /\ \/ args \in GeometryArgs /\ source_bbox \in SourceBoxes \cup {ScenarioBox}
       \/ args \in ConfigurationArgs /\ source_bbox = ScenarioBox
    /\ pc = "parse_arguments"
    /\ resolution = NoResolution
    /\ coloring_strategy_kind = NoKind
    /\ tile_background_color = "none"
    /\ bbox2 = NoBbox2
    /\ client_new_calls = 0
    /\ client_ok = FALSE
    /\ bbox_reads = 0
    /\ bbox3 = NoBbox3
    /\ image_width = NoSize
    /\ image_height = NoSize
    /\ strategy = NoKind
    /\ gen_calls = 0
    /\ gen_args = NoGenArgs
    /\ gen_result = FALSE
    /\ output_written = FALSE
    /\ notice = FALSE
    /\ exit_code = -1
    /\ stages = << >>

inputs     == <<args, source_bbox>>
mainLocals == <<resolution, coloring_strategy_kind, tile_background_color, bbox2>>
runLocals  == <<client_new_calls, client_ok, bbox_reads, bbox3, image_width, image_height, strategy>>
genVars    == <<gen_calls, gen_args, gen_result, output_written>>

\* ------------------------------------------------------------- main()
\* line 133: get_matches() prints the usage error and exits with status 1
ParseArgumentsReject ==
    /\ pc = "parse_arguments"
    /\ ~ClapAccepts(args)
    /\ pc' = "done"
    /\ exit_code' = 1
    /\ UNCHANGED <<inputs, mainLocals, runLocals, genVars, notice, stages>>

ParseArgumentsOk ==
    /\ pc = "parse_arguments"
    /\ ClapAccepts(args)
    /\ pc' = "resolution"
    /\ UNCHANGED <<inputs, mainLocals, runLocals, genVars, notice, exit_code, stages>>

\* line 134: .expect("resolution could not be parsed.") panics, status 101
ReadResolutionPanic ==
    /\ pc = "resolution"
    /\ MatchResolution(args).st # "num"
    /\ pc' = "done"
    /\ exit_code' = 101
    /\ UNCHANGED <<inputs, mainLocals, runLocals, genVars, notice, stages>>

ReadResolution ==
    /\ pc = "resolution"
    /\ MatchResolution(args).st = "num"
    /\ resolution' = [num |-> MatchResolution(args).num, den |-> MatchResolution(args).den]
    /\ pc' = "coloring_strategy_kind"
    /\ UNCHANGED <<inputs, coloring_strategy_kind, tile_background_color, bbox2, runLocals,
                   genVars, notice, exit_code, stages>>

\* lines 135-150
SelectColoringStrategyKind ==
    /\ pc = "coloring_strategy_kind"
    /\ coloring_strategy_kind' = KindOf(args)
    /\ pc' = "tile_background_color"
    /\ UNCHANGED <<inputs, resolution, tile_background_color, bbox2, runLocals,
                   genVars, notice, exit_code, stages>>

\* lines 151-162
SelectTileBackgroundColor ==
    /\ pc = "tile_background_color"
    /\ tile_background_color' = BackgroundOf(args)
    /\ pc' = "bbox2"
    /\ UNCHANGED <<inputs, resolution, coloring_strategy_kind, bbox2, runLocals,
                   genVars, notice, exit_code, stages>>

\* lines 169-172: .expect("min_x could not be parsed.") and its like panic
ReadBoundsPanic ==
    /\ pc = "bbox2"
    /\ \E f \in {"min_x", "min_y", "max_x", "max_y"} : args[f].st # "num"
    /\ pc' = "done"
    /\ exit_code' = 101
    /\ UNCHANGED <<inputs, mainLocals, runLocals, genVars, notice, stages>>

\* lines 169-174
ReadBounds ==
    /\ pc = "bbox2"
    /\ \A f \in {"min_x", "min_y", "max_x", "max_y"} : args[f].st = "num"
    /\ bbox2' = Aabb2New(Point2(args.min_x.v, args.min_y.v), Point2(args.max_x.v, args.max_y.v))
    /\ stages' = Append(stages, "Configure")
    /\ pc' = "client"
    /\ UNCHANGED <<inputs, resolution, coloring_strategy_kind, tile_background_color, runLocals,
                   genVars, notice, exit_code>>

\* -------------------------------------------------------------- run()
\* lines 101-102 and 183: new() fails, `?` returns the Err, main's unwrap() panics
NewClientFail_Retry ==
    /\ pc = "client"
    /\ client_new_calls < 3
    /\ client_new_calls' = client_new_calls + 1
    /\ UNCHANGED <<inputs, mainLocals, pc, client_ok, bbox_reads, bbox3, image_width, image_height,
                   strategy, genVars, notice, exit_code, stages>>

NewClientFail ==
    /\ pc = "client"
    /\ client_new_calls' = client_new_calls + 1
    /\ pc' = "done"
    /\ exit_code' = 101
    /\ UNCHANGED <<inputs, mainLocals, client_ok, bbox_reads, bbox3, image_width, image_height,
                   strategy, genVars, notice, stages>>

\* lines 101-102: new() succeeds
NewClient ==
    /\ pc = "client"
    /\ client_new_calls' = client_new_calls + 1
    /\ client_ok' = TRUE
    /\ pc' = "bbox3"
    /\ UNCHANGED <<inputs, mainLocals, bbox_reads, bbox3, image_width, image_height,
                   strategy, genVars, notice, exit_code, stages>>

\* lines 103-115
ResolveRegion ==
    /\ pc = "bbox3"
    /\ bbox_reads' = bbox_reads + 1
    /\ bbox3' = ResolveBbox3(bbox2, source_bbox)
    /\ stages' = Append(stages, "ResolveRegion")
    /\ pc' = "image_size"
    /\ UNCHANGED <<inputs, mainLocals, client_new_calls, client_ok, image_width, image_height,
                   strategy, genVars, notice, exit_code>>

\* lines 116-117
SizeRaster_FromVolume ==
    /\ pc = "image_size"
    /\ image_width' = ImageSize(bbox3.max.x - bbox3.min.x, resolution)
    /\ image_height' = ImageSize(bbox3.max.y - bbox3.min.y, resolution)
    /\ stages' = Append(stages, "SizeRaster")
    /\ pc' = "new_strategy"
    /\ UNCHANGED <<inputs, mainLocals, client_new_calls, client_ok, bbox_reads, bbox3,
                   strategy, genVars, notice, exit_code>>

SizeRaster ==
    /\ pc = "image_size"
    /\ image_width' = ImageSize(Dim(bbox2).x, resolution)
    /\ image_height' = ImageSize(Dim(bbox2).y, resolution)
    /\ stages' = Append(stages, "SizeRaster")
    /\ pc' = "new_strategy"
    /\ UNCHANGED <<inputs, mainLocals, client_new_calls, client_ok, bbox_reads, bbox3,
                   strategy, genVars, notice, exit_code>>

\* line 124: coloring_strategy_kind.new_strategy(), an argument of the call
NewStrategy ==
    /\ pc = "new_strategy"
    /\ strategy' = coloring_strategy_kind
    /\ stages' = Append(stages, "SelectStrategy")
    /\ pc' = "xray_from_points"
    /\ UNCHANGED <<inputs, mainLocals, client_new_calls, client_ok, bbox_reads, bbox3,
                   image_width, image_height, genVars, notice, exit_code>>

\* the generation routine: TRUE iff some point of the source fell inside the
\* volume (min inclusive, max exclusive), the points lying anywhere in the
\* closed box the source reports
MayHoldPoint(volume, source) ==
    /\ Max(volume.min.x, source.min.x) < volume.max.x
    /\ Max(volume.min.x, source.min.x) <= source.max.x
    /\ Max(volume.min.y, source.min.y) < volume.max.y
    /\ Max(volume.min.y, source.min.y) <= source.max.y
    /\ Max(volume.min.z, source.min.z) < volume.max.z
    /\ Max(volume.min.z, source.min.z) <= source.max.z

XrayFromPointsResults(volume, source) ==
    IF MayHoldPoint(volume, source) THEN {TRUE, FALSE} ELSE {FALSE}

\* lines 118-126
Generate_Retry ==
    /\ pc = "xray_from_points"
    /\ gen_calls < 3
    /\ \E found \in XrayFromPointsResults(bbox3, source_bbox) :
          /\ gen_result' = found
          /\ output_written' = (output_written \/ found)
          /\ pc' = IF found THEN "report" ELSE "xray_from_points"
    /\ gen_calls' = gen_calls + 1
    /\ gen_args' = [prior |-> "None", volume |-> bbox3, width |-> image_width,
                    height |-> image_height, strategy |-> strategy,
                    background |-> tile_background_color]
    /\ stages' = IF gen_calls = 0 THEN Append(stages, "Generate") ELSE stages
    /\ UNCHANGED <<inputs, mainLocals, runLocals, notice, exit_code>>

Generate ==
    /\ pc = "xray_from_points"
    /\ \E found \in XrayFromPointsResults(bbox3, source_bbox) :
          /\ gen_result' = found
          /\ output_written' = found
    /\ gen_calls' = gen_calls + 1
    /\ gen_args' = [prior |-> "None", volume |-> bbox3, width |-> image_width,
                    height |-> image_height, strategy |-> strategy,
                    background |-> tile_background_color]
    /\ stages' = Append(stages, "Generate")
    /\ pc' = "report"
    /\ UNCHANGED <<inputs, mainLocals, runLocals, notice, exit_code>>

\* lines 127-129 and 183-184: the notice, Ok(()), main returns
Report_EmptyIsError ==
    /\ pc = "report"
    /\ notice' = ~gen_result
    /\ stages' = Append(stages, "Report")
    /\ pc' = "done"
    /\ exit_code' = IF gen_result THEN 0 ELSE 101
    /\ UNCHANGED <<inputs, mainLocals, runLocals, genVars>>

Report ==
    /\ pc = "report"
    /\ notice' = ~gen_result
    /\ stages' = Append(stages, "Report")
    /\ pc' = "done"
    /\ exit_code' = 0
    /\ UNCHANGED <<inputs, mainLocals, runLocals, genVars>>

Next ==
    \/ ParseArgumentsReject
    \/ ParseArgumentsOk
    \/ ReadResolutionPanic
    \/ ReadResolution
    \/ SelectColoringStrategyKind
    \/ SelectTileBackgroundColor
    \/ ReadBoundsPanic
    \/ ReadBounds
    \/ NewClientFail
    \/ NewClient
    \/ ResolveRegion
    \/ SizeRaster
    \/ NewStrategy
    \/ Generate
    \/ Report

Spec == Init /\ [][Next]_vars

\* ================================================================ claims
CoordNames == {"min_x", "min_y", "max_x", "max_y"}

\* the requested rectangle as typed is numeric with min <= max per axis
RequestValid ==
    /\ \A f \in CoordNames : args[f].st = "num"
    /\ args.min_x.v <= args.max_x.v
    /\ args.min_y.v <= args.max_y.v

SizedRaster == \E i \in 1 .. Len(stages) : stages[i] = "SizeRaster"

\* the resolution given (or its default) is not a number <= 0: the runs on which
\* C1, C3, C6 and C9 are stated, so that none of them rests on the runs of C2
ResolutionNotNonPositive ==
    MatchResolution(args).st = "num" => MatchResolution(args).num > 0

\* C1: for every requested rectangle A (min <= max) and source box B, the volume
\* passed to the generation routine has min = max(A.min, B.min) and
\* max = min(A.max, B.max) in X and in Y, and B's Z bounds.
C1_VolumeIsIntersection ==
    (gen_calls = 1 /\ RequestValid /\ ResolutionNotNonPositive) =>
        gen_args.volume =
            [min |-> Point3(Max(args.min_x.v, source_bbox.min.x),
                            Max(args.min_y.v, source_bbox.min.y), source_bbox.min.z),
             max |-> Point3(Min(args.max_x.v, source_bbox.max.x),
                            Min(args.max_y.v, source_bbox.max.y), source_bbox.max.z)]

\* C2: with a resolution <= 0 the raster is never sized, the data source never
\* accessed, the generation routine never called, and the exit is non-zero.
C2_NonPositiveResolutionRejected ==
    (MatchResolution(args).st = "num" /\ MatchResolution(args).num <= 0) =>
        /\ ~SizedRaster
        /\ client_new_calls = 0
        /\ bbox_reads = 0
        /\ gen_calls = 0
        /\ pc = "done" => exit_code # 0

NonNumericArgument ==
    \/ args.resolution.st = "bad"
    \/ \E f \in CoordNames : args[f].st = "bad"
    \/ /\ args.coloring_strategy = "colored_with_intensity"
       /\ args.min_intensity.st = "bad" \/ args.max_intensity.st = "bad"
    \/ /\ args.coloring_strategy = "colored_with_height_stddev"
       /\ args.max_stddev.st = "bad"

InvalidToken ==
    \/ args.coloring_strategy \notin {"absent"} \cup ColoringStrategyVariants
    \/ args.tile_background_color \notin {"absent"} \cup TileBackgroundColorVariants

MissingConditional ==
    \/ /\ args.coloring_strategy = "colored_with_intensity"
       /\ args.min_intensity.st = "absent" \/ args.max_intensity.st = "absent"
    \/ /\ args.coloring_strategy = "colored_with_height_stddev"
       /\ args.max_stddev.st = "absent"

\* C3: a non-numeric numeric argument, an invalid enumeration token or a missing
\* conditionally required argument ends the run with a non-zero exit, and
\* PointCloudClient::new is never called.
C3_ConfigurationErrorBeforeSource ==
    (ResolutionNotNonPositive /\ (NonNumericArgument \/ InvalidToken \/ MissingConditional)) =>
        /\ client_new_calls = 0
        /\ pc = "done" => exit_code # 0

\* C4: after the generation routine returned, the run ends with exit code 0;
\* the no-points notice is printed exactly when it returned false.
C4_EmptyResultIsSuccess ==
    (pc = "done" /\ gen_calls = 1) =>
        /\ exit_code = 0
        /\ notice <=> ~gen_result

C4_Witness ==
    /\ pc = "done" /\ gen_calls = 1 /\ ~gen_result /\ notice /\ exit_code = 0
    /\ resolution.num > 0 /\ RequestValid

\* C5: PointCloudClient::new is attempted at most once; when it fails the run is
\* over with a non-zero exit, no bounding box was read and the generation
\* routine was not called.
C5_AcquisitionFailureIsFatal ==
    /\ client_new_calls <= 1
    /\ (client_new_calls >= 1 /\ ~client_ok) =>
          /\ pc = "done"
          /\ exit_code # 0
          /\ bbox_reads = 0
          /\ gen_calls = 0
    /\ pc \in {"bbox3", "image_size", "new_strategy", "xray_from_points", "report"} =>
          client_new_calls = 1

C5_Witness ==
    /\ client_new_calls = 1 /\ ~client_ok /\ pc = "done" /\ exit_code = 101
    /\ bbox_reads = 0 /\ gen_calls = 0
    /\ resolution.num > 0 /\ RequestValid

DisjointRequest ==
    \/ args.max_x.v < source_bbox.min.x
    \/ source_bbox.max.x < args.min_x.v
    \/ args.max_y.v < source_bbox.min.y
    \/ source_bbox.max.y < args.min_y.v

Inverted(b) == b.min.x > b.max.x \/ b.min.y > b.max.y

\* C6: when the requested rectangle and the source extent do not overlap in X or
\* in Y, the resolved box has an inverted axis, no error is raised, generation
\* reports no output, no file is written, and the run exits 0 with the notice.
C6_DisjointIsInvertedAndEmpty ==
    (RequestValid /\ DisjointRequest /\ ResolutionNotNonPositive /\ gen_calls = 1) =>
        /\ Inverted(gen_args.volume)
        /\ ~gen_result
        /\ ~output_written
        /\ pc = "done" => (notice /\ exit_code = 0)

\* ceil(w / (num/den)) for num > 0: the least n with n * num >= w * den
CeilQuotient(w, r) ==
    CHOOSE n \in 0 .. (w * r.den) : n * r.num >= w * r.den /\ (n - 1) * r.num < w * r.den

StageOrder == <<"Configure", "ResolveRegion", "SizeRaster", "SelectStrategy", "Generate", "Report">>

IsPrefix(s, t) == Len(s) <= Len(t) /\ \A i \in 1 .. Len(s) : s[i] = t[i]

\* C8: the stages complete in the order Configure, Resolve Region, Size Raster,
\* Select Strategy, Generate, Report; the generation routine is called at most
\* once, exactly once when the configuration is valid and the data source was
\* acquired, and always with an absent prior-state argument.
C8_LinearRun ==
    /\ IsPrefix(stages, StageOrder)
    /\ gen_calls <= 1
    /\ gen_calls = 1 <=> Len(stages) >= 5
    /\ (pc = "done" /\ client_ok) => (gen_calls = 1 /\ stages = StageOrder)
    /\ gen_calls >= 1 => gen_args.prior = "None"
    /\ output_written => gen_calls = 1

C8_Witness ==
    /\ pc = "done" /\ client_ok /\ gen_calls = 1 /\ stages = StageOrder /\ gen_args.prior = "None"
    /\ resolution.num > 0 /\ RequestValid /\ output_written

Degenerate ==
    /\ \A f \in CoordNames : args[f].st = "num"
    /\ args.min_x.v = args.max_x.v \/ args.min_y.v = args.max_y.v

\* C9: a zero-area requested rectangle yields a zero raster dimension, no output
\* is written, and the run ends with the no-points notice and exit code 0.
C9_DegenerateIsNoPoints ==
    (Degenerate /\ ResolutionNotNonPositive /\ gen_calls = 1) =>
        /\ gen_args.width = [val |-> 0, is_max |-> FALSE] \/ gen_args.height = [val |-> 0, is_max |-> FALSE]
        /\ ~output_written
        /\ pc = "done" => (notice /\ exit_code = 0)

KindSelected == coloring_strategy_kind # NoKind

\* C10: each valid coloring_strategy token yields exactly one kind (xray and
\* colored without numeric parameters), and a run that selects
\* colored_with_intensity without min_intensity/max_intensity, or
\* colored_with_height_stddev without max_stddev, always fails validation: it
\* ends at argument parsing with exit status 1 and no kind is ever selected.
C10_SinglePolicy ==
    /\ KindSelected =>
          /\ args.coloring_strategy \in {"absent", "xray"} =>
                coloring_strategy_kind = [tag |-> "XRay", a |-> 0, b |-> 0]
          /\ args.coloring_strategy = "colored" =>
                coloring_strategy_kind = [tag |-> "Colored", a |-> 0, b |-> 0]
          /\ args.coloring_strategy = "colored_with_intensity" =>
                coloring_strategy_kind.tag = "ColoredWithIntensity"
          /\ args.coloring_strategy = "colored_with_height_stddev" =>
                coloring_strategy_kind.tag = "ColoredWithHeightStddev"
    /\ MissingConditional =>
          /\ ~KindSelected
          /\ pc \in {"parse_arguments", "done"}
          /\ pc = "done" => exit_code = 1
    /\ ( /\ args.coloring_strategy \in {"absent", "xray", "colored"}
         /\ args.tile_background_color \in {"absent"} \cup TileBackgroundColorVariants
         /\ args.octree_locations
         /\ \A f \in CoordNames : args[f].st # "absent" ) =>
          ~(pc = "done" /\ exit_code = 1)

C10_Witness ==
    /\ args.coloring_strategy = "colored_with_intensity"
    /\ args.min_intensity.st = "absent"
    /\ args.max_intensity.st = "num"
    /\ args.resolution.st = "absent" /\ args.tile_background_color = "absent"
    /\ args.octree_locations /\ \A f \in CoordNames : args[f].st = "num"
    /\ pc = "done" /\ exit_code = 1

====
